---- MODULE Spec2Model ----
(***************************************************************************)
(* KAD-Kings: host-authoritative replicated game state over a reliable,    *)
(* per-sender ordered data channel (app/page.tsx, latest variant).         *)
(*                                                                         *)
(* Every peer (browser tab) holds a React state `state`, a ref `stateRef`  *)
(* that an effect copies from `state` after each render, a room handle     *)
(* `roomRef` and the flag `connected`.  Handlers read stateRef.current and *)
(* write with setState.                                                    *)
(***************************************************************************)
EXTENDS Integers, Sequences, FiniteSets, TLC

(***************************************************************************)
(* Bounds of the model                                                     *)
(***************************************************************************)
\* peers that may join the room; Names is in localeCompare order
Names == <<"a", "b", "c">>
NumPeers == 2
Ids == {Names[i] : i \in 1..NumPeers}

\* capacity of one sender->receiver data channel and of one presence queue
MaxQueue == 1
\* user and environment events (joins, leaves, clicks, timer ticks, clock steps)
\* in one behaviour of Spec; the handlers they trigger are not counted
MaxEvents == 3
\* how many of the sampled shuffles (SeedList) a connect or reshuffle may pick
NumSeeds == 2
\* cap of the host's cardsDrawn counter in SpecDeck: one deck and a reshuffle
MaxDeckDraws == 54
\* the clock of SpecDeck stops at MaxDeckNow milliseconds
MaxDeckNow == 40000
\* user and environment events in one behaviour of SpecHost
MaxHostEvents == 8
\* user events in one behaviour of SpecKing
MaxKingEvents == 3
\* user and environment events in one behaviour of SpecRace
MaxRaceEvents == 7
\* user and environment events in one behaviour of SpecClock
MaxClockEvents == 10
\* user events in one behaviour of SpecLive
MaxLiveEvents == 4

(***************************************************************************)
(* Values                                                                  *)
(***************************************************************************)
\* JavaScript null, for identity-valued fields
Null == "null"

\* Math.random() is sampled as k / RandomDen with k in 0..RandomDen-1
RandomDen == 64

\* the random tapes a shuffle may consume: tape s yields, at step i of the
\* Fisher-Yates loop, the sample ((s * (i + 1)) % RandomDen) / RandomDen
SeedList == <<21, 45, 9, 3>>
Seeds == {SeedList[i] : i \in 1..NumSeeds}

\* samples of Math.random() used for the Waterfall duration
DurationSamples == {0, RandomDen - 1}

\* milliseconds by which the clock may advance in one step
ClockSteps == {5000, 20000}

(***************************************************************************)
(* Helpers (page.tsx "HELPERS")                                            *)
(***************************************************************************)
\* a card is the string `${rank}${suit}`, kept as its sequence of characters;
\* S H D C stand for the four suit glyphs
suits == <<"S", "H", "D", "C">>
ranks == << <<"A">>, <<"2">>, <<"3">>, <<"4">>, <<"5">>, <<"6">>, <<"7">>,
            <<"8">>, <<"9">>, <<"1", "0">>, <<"J">>, <<"Q">>, <<"K">> >>

\* for (const r of ranks) for (const s of suits) d.push(`${r}${s}`)
buildDeck ==
    [k \in 1..(Len(ranks) * Len(suits)) |->
        ranks[((k - 1) \div Len(suits)) + 1] \o <<suits[((k - 1) % Len(suits)) + 1]>>]

\* Math.random() at step i of a loop driven by tape seed (numerator over RandomDen)
MathRandom(seed, i) == (seed * (i + 1)) % RandomDen

\* [a[i], a[j]] = [a[j], a[i]] with 0-based i, j
swap(a, i, j) == [a EXCEPT ![i + 1] = a[j + 1], ![j + 1] = a[i + 1]]

RECURSIVE shuffleLoop(_, _, _)
shuffleLoop(a, i, seed) ==
    IF i <= 0 THEN a
    ELSE LET j == (MathRandom(seed, i) * (i + 1)) \div RandomDen
         IN  shuffleLoop(swap(a, i, j), i - 1, seed)

\* Fisher-Yates: for (let i = a.length - 1; i > 0; i--) swap a[i], a[floor(random*(i+1))]
shuffle(arr, seed) == shuffleLoop(arr, Len(arr) - 1, seed)

\* shuffle(buildDeck()) for every sampled tape, computed once
ShuffledDeck == [s \in Seeds |-> shuffle(buildDeck, s)]

\* parseCard: suit = card.slice(-1), rank = card.slice(0, -1)
parseCard(card) ==
    IF card = <<>> THEN [rank |-> <<"-">>, suit |-> <<>>]
    ELSE [rank |-> SubSeq(card, 1, Len(card) - 1), suit |-> <<card[Len(card)]>>]

(***************************************************************************)
(* Game state (page.tsx "TYPES")                                           *)
(***************************************************************************)
\* a nullable object is <<>> (null) or <<object>>
\* players is a function whose domain is the set of keys of the Record

\* the empty Record {}
noPlayers == [k \in {} |-> Null]

emptyState ==
    [ host |-> Null, deck |-> <<>>, currentCard |-> <<>>, turn |-> Null,
      lastDrawBy |-> Null, players |-> noPlayers,
      heavenHolder |-> Null, thumbHolder |-> Null, qmHolder |-> Null,
      kingHolder |-> Null,
      powerRound |-> <<>>, waterfall |-> <<>>, kingRules |-> <<>> ]

newPlayer(id) ==
    [name |-> id, drinks |-> 0, cardsDrawn |-> 0, qmCaught |-> 0, powerLosses |-> 0]

\* the keys of gs.players
PlayerIds(gs) == DOMAIN gs.players

\* players with the entry of id set to stats
WithPlayer(players, id, stats) ==
    [k \in (DOMAIN players) \cup {id} |-> IF k = id THEN stats ELSE players[k]]

\* delete players[id]
WithoutPlayer(players, id) ==
    [k \in (DOMAIN players) \ {id} |-> players[k]]

\* ensurePlayer(gs, id): create the record on first sight of an identity
ensurePlayer(gs, id) ==
    IF id = Null THEN gs
    ELSE IF id \notin PlayerIds(gs)
         THEN [gs EXCEPT !.players = WithPlayer(gs.players, id, newPlayer(id))]
         ELSE gs

\* the table's seat count: .slice(0, 6)
MaxSeats == 6

\* ids.sort((a, b) => a.localeCompare(b)) over a set of identities
sortIds(S) == SelectSeq(Names, LAMBDA x : x \in S)

\* arr.slice(0, n)
slice(arr, n) == SubSeq(arr, 1, IF Len(arr) < n THEN Len(arr) ELSE n)

\* arr.includes(x)
includes(arr, x) == \E i \in 1..Len(arr) : arr[i] = x

\* arr.indexOf(x), 0-based, for x in arr
indexOf(arr, x) == (CHOOSE i \in 1..Len(arr) : arr[i] = x /\ \A j \in 1..(i - 1) : arr[j] # x) - 1

\* Array.from(new Set(arr)): keep the first occurrence of each element
dedupe(arr) == SelectSeq([i \in 1..Len(arr) |-> <<i, arr[i]>>],
                         LAMBDA e : \A j \in 1..(e[1] - 1) : arr[j] # e[2])

\* getTurnOrder: [host] then the other player keys sorted, deduplicated, at most 6
getTurnOrder(gs) ==
    LET host   == IF gs.host # Null THEN <<gs.host>> ELSE <<>>
        rest   == sortIds(PlayerIds(gs) \ {gs.host})
        merged == host \o rest
        uniq   == dedupe(merged)
    IN  slice([i \in 1..Len(uniq) |-> uniq[i][2]], MaxSeats)

\* advanceTurn: the cyclic successor of gs.turn in the turn order
advanceTurn(gs) ==
    LET order == getTurnOrder(gs)
    IN  IF Len(order) = 0 THEN gs.host
        ELSE LET cur == IF gs.turn # Null /\ includes(order, gs.turn) THEN gs.turn ELSE order[1]
                 idx == indexOf(order, cur)
             IN  order[((idx + 1) % Len(order)) + 1]

\* isDeckLocked: only an Ace Waterfall (pending or active) locks the draw
isDeckLocked(gs) ==
    gs.waterfall # <<>> /\ gs.waterfall[1].phase \in {"pending", "active"}

\* mutant: the duration drawn from 5..21 (Math.random() * 17)
durationOf_Range17(r) == (5 * RandomDen + r * 17) \div RandomDen

\* Math.floor(5 + Math.random() * 16) for the sample r / RandomDen
durationOf(r) == (5 * RandomDen + r * 16) \div RandomDen

\* mutant: draw() without the reshuffle of an empty deck
drawNext_NoReshuffle(current, me, seed, r) ==
    LET card == IF Len(current.deck) = 0 THEN <<>> ELSE Head(current.deck)
        n1   == ensurePlayer([current EXCEPT !.deck = IF Len(@) = 0 THEN <<>> ELSE Tail(@),
                                             !.currentCard = card], me)
        n2   == [n1 EXCEPT !.players[me].cardsDrawn = @ + 1, !.lastDrawBy = me,
                           !.waterfall = <<>>]
    IN  [n2 EXCEPT !.turn = advanceTurn(n2)]

\* mutant: draw of an Ace passing the turn on like any other card
drawNext_AcePassesTurn(current, me, seed, r) ==
    LET deck0 == IF Len(current.deck) = 0 THEN ShuffledDeck[seed] ELSE current.deck
        card  == IF Len(deck0) = 0 THEN <<>> ELSE Head(deck0)
        n1    == ensurePlayer([current EXCEPT !.deck = IF Len(deck0) = 0 THEN <<>> ELSE Tail(deck0),
                                              !.currentCard = card], me)
        n2    == [n1 EXCEPT !.players[me].cardsDrawn = @ + 1, !.lastDrawBy = me]
        rank  == parseCard(card).rank
        n3    == [n2 EXCEPT !.heavenHolder = IF rank = <<"7">> THEN me ELSE @,
                            !.thumbHolder  = IF rank = <<"J">> THEN me ELSE @,
                            !.qmHolder     = IF rank = <<"Q">> THEN me ELSE @,
                            !.kingHolder   = IF rank = <<"K">> THEN me ELSE @]
    IN  IF rank = <<"A">>
        THEN LET n4 == [n3 EXCEPT !.waterfall = << [phase |-> "pending", drawer |-> me,
                                                    durationSec |-> durationOf(r),
                                                    startedAt |-> 0] >>]
             IN  [n4 EXCEPT !.turn = advanceTurn(n4)]
        ELSE LET n4 == [n3 EXCEPT !.waterfall = <<>>]
             IN  [n4 EXCEPT !.turn = advanceTurn(n4)]

\* mutant: draw showing the front card without taking it from the deck
drawNext_LeavesCardInDeck(current, me, seed, r) ==
    LET deck0 == IF Len(current.deck) = 0 THEN ShuffledDeck[seed] ELSE current.deck
        card  == IF Len(deck0) = 0 THEN <<>> ELSE Head(deck0)
        n1    == ensurePlayer([current EXCEPT !.deck = deck0, !.currentCard = card], me)
        n2    == [n1 EXCEPT !.players[me].cardsDrawn = @ + 1, !.lastDrawBy = me]
        rank  == parseCard(card).rank
        n3    == [n2 EXCEPT !.heavenHolder = IF rank = <<"7">> THEN me ELSE @,
                            !.thumbHolder  = IF rank = <<"J">> THEN me ELSE @,
                            !.qmHolder     = IF rank = <<"Q">> THEN me ELSE @,
                            !.kingHolder   = IF rank = <<"K">> THEN me ELSE @]
    IN  IF rank = <<"A">>
        THEN [n3 EXCEPT !.waterfall = << [phase |-> "pending", drawer |-> me,
                                          durationSec |-> durationOf(r),
                                          startedAt |-> 0] >>,
                        !.turn = me]
        ELSE LET n4 == [n3 EXCEPT !.waterfall = <<>>]
             IN  [n4 EXCEPT !.turn = advanceTurn(n4)]

\* mutant: draw of a non-Ace card leaving the turn where it was
drawNext_KeepsTurn(current, me, seed, r) ==
    LET deck0 == IF Len(current.deck) = 0 THEN ShuffledDeck[seed] ELSE current.deck
        card  == IF Len(deck0) = 0 THEN <<>> ELSE Head(deck0)
        n1    == ensurePlayer([current EXCEPT !.deck = IF Len(deck0) = 0 THEN <<>> ELSE Tail(deck0),
                                              !.currentCard = card], me)
        n2    == [n1 EXCEPT !.players[me].cardsDrawn = @ + 1, !.lastDrawBy = me]
        rank  == parseCard(card).rank
        n3    == [n2 EXCEPT !.heavenHolder = IF rank = <<"7">> THEN me ELSE @,
                            !.thumbHolder  = IF rank = <<"J">> THEN me ELSE @,
                            !.qmHolder     = IF rank = <<"Q">> THEN me ELSE @,
                            !.kingHolder   = IF rank = <<"K">> THEN me ELSE @]
    IN  IF rank = <<"A">>
        THEN [n3 EXCEPT !.waterfall = << [phase |-> "pending", drawer |-> me,
                                          durationSec |-> durationOf(r),
                                          startedAt |-> 0] >>,
                        !.turn = me]
        ELSE LET n4 == [n3 EXCEPT !.waterfall = <<>>]
             IN  n4

\* the host branch of draw(): the state it hands to setState and broadcasts.
\* current is stateRef.current, me the drawing identity (me.current),
\* seed the tape of a reshuffle, r the sample of the Waterfall duration
drawNext(current, me, seed, r) ==
    LET deck0 == IF Len(current.deck) = 0 THEN ShuffledDeck[seed] ELSE current.deck
        card  == IF Len(deck0) = 0 THEN <<>> ELSE Head(deck0)
        n1    == ensurePlayer([current EXCEPT !.deck = IF Len(deck0) = 0 THEN <<>> ELSE Tail(deck0),
                                              !.currentCard = card], me)
        n2    == [n1 EXCEPT !.players[me].cardsDrawn = @ + 1, !.lastDrawBy = me]
        rank  == parseCard(card).rank
        n3    == [n2 EXCEPT !.heavenHolder = IF rank = <<"7">> THEN me ELSE @,
                            !.thumbHolder  = IF rank = <<"J">> THEN me ELSE @,
                            !.qmHolder     = IF rank = <<"Q">> THEN me ELSE @,
                            !.kingHolder   = IF rank = <<"K">> THEN me ELSE @]
    IN  IF rank = <<"A">>
        THEN [n3 EXCEPT !.waterfall = << [phase |-> "pending", drawer |-> me,
                                          durationSec |-> durationOf(r),
                                          startedAt |-> 0] >>,
                        !.turn = me]
        ELSE LET n4 == [n3 EXCEPT !.waterfall = <<>>]
             IN  [n4 EXCEPT !.turn = advanceTurn(n4)]


\* startWaterfallHost: pending -> active, by the drawer only; t is Date.now()
startWaterfallHost(gs, requestedBy, t) ==
    IF gs.waterfall = <<>> THEN gs
    ELSE IF gs.waterfall[1].phase # "pending" THEN gs
    ELSE IF gs.waterfall[1].drawer # requestedBy THEN gs
    ELSE [gs EXCEPT !.waterfall = << [gs.waterfall[1] EXCEPT !.phase = "active", !.startedAt = t] >>]

\* mutant: tickWaterfallHost ending an active Waterfall at the first tick
tickWaterfallHost_ClearsEarly(gs, t) ==
    IF gs.waterfall = <<>> \/ gs.waterfall[1].phase # "active" \/ gs.waterfall[1].startedAt = 0
    THEN gs
    ELSE LET n == [gs EXCEPT !.waterfall = <<>>]
         IN  [n EXCEPT !.turn = advanceTurn(n)]

\* tickWaterfallHost: clear an elapsed active Waterfall and only then advance the turn
tickWaterfallHost(gs, t) ==
    IF gs.waterfall = <<>> \/ gs.waterfall[1].phase # "active" \/ gs.waterfall[1].startedAt = 0
    THEN gs
    ELSE IF t - gs.waterfall[1].startedAt >= gs.waterfall[1].durationSec * 1000
         THEN LET n == [gs EXCEPT !.waterfall = <<>>]
              IN  [n EXCEPT !.turn = advanceTurn(n)]
         ELSE gs

\* the updater of the ParticipantConnected and TrackSubscribed handlers
onParticipantConnected(s, id) ==
    LET n == ensurePlayer(s, id)
    IN  IF n.turn = Null
        THEN [n EXCEPT !.turn = IF n.host # Null THEN n.host ELSE id]
        ELSE n

\* powerLosses of id incremented (ensurePlayer first)
withPowerLoss(gs, id) ==
    LET n == ensurePlayer(gs, id)
    IN  [n EXCEPT !.players[id].powerLosses = @ + 1]

\* holderFor: the holder of the badge that starts a round of this kind
holderFor(gs, kind) == IF kind = "heaven" THEN gs.heavenHolder ELSE gs.thumbHolder

\* mutant: startPowerRoundHost without the holder check
startPowerRoundHost_AnyStarter(gs, kind, startedBy, t) ==
    IF gs.powerRound # <<>> /\ gs.powerRound[1].active THEN gs
    ELSE LET order    == getTurnOrder(gs)
             eligible == IF startedBy # Null /\ ~includes(order, startedBy)
                         THEN <<startedBy>> \o order ELSE order
         IN  [gs EXCEPT !.powerRound =
                 << [kind |-> kind, active |-> TRUE, startedBy |-> startedBy,
                     eligible |-> slice(eligible, MaxSeats), tapped |-> <<>>,
                     loser |-> Null, startedAt |-> t] >>]

\* startPowerRoundHost: only the holder starts a round, and only if none is active;
\* eligible is the turn order with the starter force-included; t is Date.now()
startPowerRoundHost(gs, kind, startedBy, t) ==
    LET holder == holderFor(gs, kind)
    IN  IF holder = Null \/ holder # startedBy THEN gs
        ELSE IF gs.powerRound # <<>> /\ gs.powerRound[1].active THEN gs
        ELSE LET order    == getTurnOrder(gs)
                 eligible == IF startedBy # Null /\ ~includes(order, startedBy)
                             THEN <<startedBy>> \o order ELSE order
             IN  [gs EXCEPT !.powerRound =
                     << [kind |-> kind, active |-> TRUE, startedBy |-> startedBy,
                         eligible |-> slice(eligible, MaxSeats), tapped |-> <<>>,
                         loser |-> Null, startedAt |-> t] >>]

\* mutant: tapPowerHost accepting a second tap of the same player
tapPowerHost_TapsTwice(gs, kind, by) ==
    IF gs.powerRound = <<>> THEN gs
    ELSE IF ~gs.powerRound[1].active \/ gs.powerRound[1].kind # kind THEN gs
    ELSE IF by = Null THEN gs
    ELSE IF ~includes(gs.powerRound[1].eligible, by) THEN gs
    ELSE LET pr   == gs.powerRound[1]
             tp   == Append(pr.tapped, by)
             done == Len(tp) >= Len(pr.eligible)
             pr2  == [pr EXCEPT !.tapped = tp,
                                !.active = IF done THEN FALSE ELSE @,
                                !.loser = IF done THEN tp[Len(tp)] ELSE @]
             n    == [gs EXCEPT !.powerRound = <<pr2>>]
         IN  IF done THEN withPowerLoss(n, pr2.loser) ELSE n

\* mutant: tapPowerHost naming the first player to tap as the loser
tapPowerHost_LoserFirst(gs, kind, by) ==
    IF gs.powerRound = <<>> THEN gs
    ELSE IF ~gs.powerRound[1].active \/ gs.powerRound[1].kind # kind THEN gs
    ELSE IF by = Null THEN gs
    ELSE IF ~includes(gs.powerRound[1].eligible, by) THEN gs
    ELSE IF includes(gs.powerRound[1].tapped, by) THEN gs
    ELSE LET pr   == gs.powerRound[1]
             tp   == Append(pr.tapped, by)
             done == Len(tp) >= Len(pr.eligible)
             pr2  == [pr EXCEPT !.tapped = tp,
                                !.active = IF done THEN FALSE ELSE @,
                                !.loser = IF done THEN tp[1] ELSE @]
             n    == [gs EXCEPT !.powerRound = <<pr2>>]
         IN  IF done THEN withPowerLoss(n, pr2.loser) ELSE n

\* tapPowerHost: an eligible identity taps once; the last tap resolves the round
tapPowerHost(gs, kind, by) ==
    IF gs.powerRound = <<>> THEN gs
    ELSE IF ~gs.powerRound[1].active \/ gs.powerRound[1].kind # kind THEN gs
    ELSE IF by = Null THEN gs
    ELSE IF ~includes(gs.powerRound[1].eligible, by) THEN gs
    ELSE IF includes(gs.powerRound[1].tapped, by) THEN gs
    ELSE LET pr   == gs.powerRound[1]
             tp   == Append(pr.tapped, by)
             done == Len(tp) >= Len(pr.eligible)
             pr2  == [pr EXCEPT !.tapped = tp,
                                !.active = IF done THEN FALSE ELSE @,
                                !.loser = IF done THEN tp[Len(tp)] ELSE @]
             n    == [gs EXCEPT !.powerRound = <<pr2>>]
         IN  IF done THEN withPowerLoss(n, pr2.loser) ELSE n

\* clearPowerHost
clearPowerHost(gs) == [gs EXCEPT !.powerRound = <<>>]

\* qmCaughtHost: the Question Master tags a target other than itself
qmCaughtHost(gs, qmBy, target) ==
    IF gs.qmHolder = Null \/ gs.qmHolder # qmBy THEN gs
    ELSE IF target = Null \/ target = qmBy THEN gs
    ELSE LET n == ensurePlayer(gs, target)
         IN  [n EXCEPT !.players[target].qmCaught = @ + 1]

\* the King-rule list keeps the newest 20: .slice(0, 20)
MaxRules == 20

\* text.trim() on a text kept as its sequence of characters
RECURSIVE trim(_)
trim(text) ==
    IF text = <<>> THEN <<>>
    ELSE IF Head(text) = " " THEN trim(Tail(text))
    ELSE IF text[Len(text)] = " " THEN trim(SubSeq(text, 1, Len(text) - 1))
    ELSE text

\* uid("rule"): an id no rule of the list carries
uid(rules) ==
    1 + (IF rules = <<>> THEN 0
         ELSE CHOOSE m \in {rules[i].id : i \in 1..Len(rules)} :
                  \A i \in 1..Len(rules) : rules[i].id <= m)

\* kingAddRuleHost: the King holder adds a non-empty rule at the front; t is Date.now()
kingAddRuleHost(gs, by, text, t) ==
    IF gs.kingHolder = Null \/ gs.kingHolder # by THEN gs
    ELSE IF trim(text) = <<>> THEN gs
    ELSE [gs EXCEPT !.kingRules =
             slice(<< [id |-> uid(gs.kingRules), text |-> trim(text), by |-> by,
                       createdAt |-> t] >> \o @, MaxRules)]

\* mutant: kingRemoveRuleHost removing the rule for any requester
kingRemoveRuleHost_AnyoneRemoves(gs, requestedBy, ruleId) ==
    IF ~\E i \in 1..Len(gs.kingRules) : gs.kingRules[i].id = ruleId THEN gs
    ELSE [gs EXCEPT !.kingRules = SelectSeq(@, LAMBDA r : r.id # ruleId)]

\* kingRemoveRuleHost: the rule's author or the host removes it
kingRemoveRuleHost(gs, requestedBy, ruleId) ==
    IF ~\E i \in 1..Len(gs.kingRules) : gs.kingRules[i].id = ruleId THEN gs
    ELSE LET rule == gs.kingRules[CHOOSE i \in 1..Len(gs.kingRules) :
                                      /\ gs.kingRules[i].id = ruleId
                                      /\ \A j \in 1..(i - 1) : gs.kingRules[j].id # ruleId]
         IN  IF gs.host # requestedBy /\ rule.by # requestedBy THEN gs
             ELSE [gs EXCEPT !.kingRules = SelectSeq(@, LAMBDA r : r.id # ruleId)]

\* the power-round part of the ParticipantDisconnected updater
departFromPowerRound(n, id) ==
    IF n.powerRound # <<>> /\ n.powerRound[1].active
    THEN LET pr   == n.powerRound[1]
             el   == SelectSeq(pr.eligible, LAMBDA x : x # id)
             tp   == SelectSeq(pr.tapped, LAMBDA x : x # id)
             done == Len(el) > 0 /\ Len(tp) >= Len(el)
             pr2  == [pr EXCEPT !.eligible = el, !.tapped = tp,
                                !.active = IF done THEN FALSE ELSE @,
                                !.loser = IF done THEN tp[Len(tp)] ELSE @]
             n2   == [n EXCEPT !.powerRound = <<pr2>>]
         IN  IF done THEN withPowerLoss(n2, pr2.loser) ELSE n2
    ELSE n

\* the updater of the ParticipantDisconnected handler
onParticipantDisconnected(s, id) ==
    LET n1 == [s EXCEPT !.players = WithoutPlayer(@, id)]
        n2 == IF n1.turn = id THEN [n1 EXCEPT !.turn = advanceTurn(n1)] ELSE n1
        n3 == [n2 EXCEPT !.heavenHolder = IF @ = id THEN Null ELSE @,
                         !.thumbHolder  = IF @ = id THEN Null ELSE @,
                         !.qmHolder     = IF @ = id THEN Null ELSE @,
                         !.kingHolder   = IF @ = id THEN Null ELSE @]
        n4 == departFromPowerRound(n3, id)
    IN  IF n4.waterfall # <<>> /\ n4.waterfall[1].drawer = id
        THEN LET n5 == [n4 EXCEPT !.waterfall = <<>>]
             IN  [n5 EXCEPT !.turn = advanceTurn(n5)]
        ELSE n4

\* msg.data.f ?? default: the payload's field, or the default of a missing one
orDefault(data, f) == IF f \in DOMAIN data THEN data[f] ELSE emptyState[f]

\* mutant: the STATE branch dropping the payload's deck
onState_DropsDeck(data) ==
    [ host |-> orDefault(data, "host"), deck |-> <<>>,
      currentCard |-> orDefault(data, "currentCard"),
      turn |-> IF orDefault(data, "turn") # Null THEN orDefault(data, "turn")
               ELSE orDefault(data, "host"),
      lastDrawBy |-> orDefault(data, "lastDrawBy"),
      players |-> orDefault(data, "players"),
      heavenHolder |-> orDefault(data, "heavenHolder"),
      thumbHolder |-> orDefault(data, "thumbHolder"),
      qmHolder |-> orDefault(data, "qmHolder"),
      kingHolder |-> orDefault(data, "kingHolder"),
      powerRound |-> orDefault(data, "powerRound"),
      waterfall |-> orDefault(data, "waterfall"),
      kingRules |-> orDefault(data, "kingRules") ]

\* the STATE branch of the DataReceived handler: the payload, field by field
\* (turn: msg.data.turn ?? msg.data.host ?? null)
onState(data) ==
    [ host |-> orDefault(data, "host"), deck |-> orDefault(data, "deck"),
      currentCard |-> orDefault(data, "currentCard"),
      turn |-> IF orDefault(data, "turn") # Null THEN orDefault(data, "turn")
               ELSE orDefault(data, "host"),
      lastDrawBy |-> orDefault(data, "lastDrawBy"),
      players |-> orDefault(data, "players"),
      heavenHolder |-> orDefault(data, "heavenHolder"),
      thumbHolder |-> orDefault(data, "thumbHolder"),
      qmHolder |-> orDefault(data, "qmHolder"),
      kingHolder |-> orDefault(data, "kingHolder"),
      powerRound |-> orDefault(data, "powerRound"),
      waterfall |-> orDefault(data, "waterfall"),
      kingRules |-> orDefault(data, "kingRules") ]

\* the UPDATE branch of the DataReceived handler: Object.assign(players[id], patch)
onUpdate(s, id, patch) ==
    LET n == ensurePlayer(s, id)
    IN  [n EXCEPT !.players[id].drinks = patch.drinks]

(***************************************************************************)
(* The room                                                                *)
(***************************************************************************)
VARIABLES
    state,      \* state[p]: the React state of peer p (latest setState)
    stateRef,   \* stateRef[p]: stateRef.current of peer p
    roomRef,    \* roomRef[p]: roomRef.current is a Room
    connected,  \* connected[p]: the React flag `connected`
    pc,         \* pc[p]: "idle", or "connecting" while connect() awaits room.connect
    inRoom,     \* inRoom[p]: the session service counts p as a participant
    net,        \* net[<<s, r>>]: payloads published by s, not yet handled by r
    presence,   \* presence[p]: participant events not yet handled by p
    now,        \* Date.now()
    threw,      \* threw[p]: a handler of p has raised an uncaught error
    events      \* user and environment events so far

\* the program's variables
prog == <<state, stateRef, roomRef, connected, pc, inRoom, net, presence, now, threw>>
vars == <<prog, events>>

Chans == Ids \X Ids

Init ==
    /\ state = [p \in Ids |-> emptyState]
    /\ stateRef = [p \in Ids |-> emptyState]
    /\ roomRef = [p \in Ids |-> FALSE]
    /\ connected = [p \in Ids |-> FALSE]
    /\ pc = [p \in Ids |-> "idle"]
    /\ inRoom = [p \in Ids |-> FALSE]
    /\ net = [c \in Chans |-> <<>>]
    /\ presence = [p \in Ids |-> <<>>]
    /\ now = 1
    /\ threw = [p \in Ids |-> FALSE]
    /\ events = 0

\* the other participants of the session
Others(p) == {q \in Ids \ {p} : inRoom[q]}

\* room for one more payload from p in every channel it would use
CanSend(p) == \A q \in Others(p) : Len(net[<<p, q>>]) < MaxQueue

\* room for one more participant event at every other participant
CanNotify(p) == \A q \in Others(p) : Len(presence[q]) < MaxQueue

\* send(msg): publishData(encode(msg), {reliable: true}) to every other participant
send(netv, p, msgs) ==
    IF roomRef[p] /\ inRoom[p]
    THEN [c \in Chans |-> IF c[1] = p /\ c[2] \in Others(p) THEN netv[c] \o msgs ELSE netv[c]]
    ELSE netv

StateMsg(gs) == [type |-> "STATE", data |-> gs]
DrawMsg(by) == [type |-> "DRAW", requestedBy |-> by]
WaterfallStartMsg(by) == [type |-> "WATERFALL_START", requestedBy |-> by]
UpdateMsg(id, d) == [type |-> "UPDATE", id |-> id, patch |-> [drinks |-> d]]
PowerStartMsg(kind, by) == [type |-> "POWER_START", kind |-> kind, requestedBy |-> by]
PowerTapMsg(kind, by) == [type |-> "POWER_TAP", kind |-> kind, by |-> by]
PowerClearMsg(by) == [type |-> "POWER_CLEAR", requestedBy |-> by]
QmCaughtMsg(by, target) == [type |-> "QM_CAUGHT", requestedBy |-> by, target |-> target]
KingAddRuleMsg(by, text) == [type |-> "KING_ADD_RULE", requestedBy |-> by, text |-> text]
KingRemoveRuleMsg(by, ruleId) ==
    [type |-> "KING_REMOVE_RULE", requestedBy |-> by, ruleId |-> ruleId]

\* a payload that JSON.parse rejects
NotJson == [bytes |-> "garbage"]

\* decode(buf): the parsed payload, or null (<<>>) for bytes that are not JSON
decode(buf) == IF "bytes" \in DOMAIN buf THEN <<>> ELSE <<buf>>

\* msg.f of a parsed payload, undefined (Null) when the field is missing
field(msg, f) == IF f \in DOMAIN msg THEN msg[f] ELSE Null

\* what a handler does: set is whether it calls setState (with st), msgs what it sends
NoEffect == [set |-> FALSE, st |-> emptyState, msgs |-> <<>>]
Effect(st, msgs) == [set |-> TRUE, st |-> st, msgs |-> msgs]

\* mutant: draw() without the deck lock
draw_IgnoresLock(p) ==
    LET current == stateRef[p]
    IN  IF ~roomRef[p] THEN {NoEffect}
        ELSE IF current.host # p
             THEN {[set |-> FALSE, st |-> emptyState, msgs |-> <<DrawMsg(p)>>]}
        ELSE {Effect(drawNext(current, p, sd, r), <<StateMsg(drawNext(current, p, sd, r))>>) :
                 sd \in Seeds, r \in DurationSamples}

\* mutant: draw() without the host check: a guest draws on its own copy
draw_GuestDrawsLocally(p) ==
    LET current == stateRef[p]
    IN  IF ~roomRef[p] THEN {NoEffect}
        ELSE IF isDeckLocked(current) THEN {NoEffect}
        ELSE {Effect(drawNext(current, p, sd, r), <<StateMsg(drawNext(current, p, sd, r))>>) :
                 sd \in Seeds, r \in DurationSamples}

\* draw() run by peer p: the possible effects
draw(p) ==
    LET current == stateRef[p]
    IN  IF ~roomRef[p] THEN {NoEffect}
        ELSE IF isDeckLocked(current) THEN {NoEffect}
        ELSE IF current.host # p
             THEN {[set |-> FALSE, st |-> emptyState, msgs |-> <<DrawMsg(p)>>]}
        ELSE LET seeds == IF Len(current.deck) = 0 THEN Seeds ELSE {SeedList[1]}
             IN  {Effect(drawNext(current, p, sd, r), <<StateMsg(drawNext(current, p, sd, r))>>) :
                     sd \in seeds, r \in DurationSamples}

\* peer p applies effect e, having consumed its inbound channels down to netv
Apply(p, e, netv) ==
    /\ state' = [state EXCEPT ![p] = IF e.set THEN e.st ELSE @]
    /\ net' = send(netv, p, e.msgs)



(***************************************************************************)
(* connect() and disconnect()                                              *)
(***************************************************************************)
\* p leaves the session: the others are told, what was on its way to p is gone
Depart(p) ==
    /\ inRoom' = [inRoom EXCEPT ![p] = FALSE]
    /\ presence' = [q \in Ids |->
                       IF q = p THEN <<>>
                       ELSE IF q \in Others(p) THEN Append(presence[q], <<"left", p>>)
                       ELSE presence[q]]
    /\ net' = [c \in Chans |-> IF c[2] = p THEN <<>> ELSE net[c]]

\* connect() up to `await room.connect(...)`: the handlers are registered and the
\* session service admits p
ConnectStart(p) ==
    /\ ~connected[p] /\ pc[p] = "idle"
    /\ CanNotify(p)
    /\ roomRef' = [roomRef EXCEPT ![p] = TRUE]
    /\ pc' = [pc EXCEPT ![p] = "connecting"]
    /\ inRoom' = [inRoom EXCEPT ![p] = TRUE]
    /\ presence' = [q \in Ids |->
                       IF q \in Others(p) THEN Append(presence[q], <<"joined", p>>)
                       ELSE presence[q]]
    /\ UNCHANGED <<state, stateRef, connected, net, now, threw>>

\* the state connect() computes after room.connect resolved
connectNext(current, identity, seed) ==
    LET next == ensurePlayer(current, identity)
    IN  IF next.host = Null
        THEN [next EXCEPT !.host = identity, !.deck = ShuffledDeck[seed], !.turn = identity]
        ELSE IF next.turn = Null THEN [next EXCEPT !.turn = next.host] ELSE next

\* connect() after room.connect resolved: init / merge state and announce it
ConnectFinish(p) ==
    /\ pc[p] = "connecting"
    /\ CanSend(p)
    /\ \E seed \in (IF stateRef[p].host = Null THEN Seeds ELSE {SeedList[1]}) :
          LET next == connectNext(stateRef[p], p, seed)
          IN  Apply(p, Effect(next, <<StateMsg(next)>>), net)
    /\ connected' = [connected EXCEPT ![p] = TRUE]
    /\ pc' = [pc EXCEPT ![p] = "idle"]
    /\ UNCHANGED <<stateRef, roomRef, inRoom, presence, now, threw>>

\* connect() failing (token request or room.connect): the catch block
ConnectFail(p) ==
    /\ ~connected[p] /\ pc[p] = "idle"
    /\ roomRef[p]
    /\ roomRef' = [roomRef EXCEPT ![p] = FALSE]
    /\ UNCHANGED <<state, stateRef, connected, pc, inRoom, net, presence, now, threw>>

\* disconnect(): the player leaves
Disconnect(p) ==
    /\ connected[p] /\ pc[p] = "idle"
    /\ CanNotify(p)
    /\ roomRef' = [roomRef EXCEPT ![p] = FALSE]
    /\ state' = [state EXCEPT ![p] = emptyState]
    /\ connected' = [connected EXCEPT ![p] = FALSE]
    /\ Depart(p)
    /\ UNCHANGED <<stateRef, pc, now, threw>>

\* RoomEvent.Disconnected: the session drops p
SessionDisconnected(p) ==
    /\ connected[p] /\ pc[p] = "idle" /\ inRoom[p]
    /\ CanNotify(p)
    /\ connected' = [connected EXCEPT ![p] = FALSE]
    /\ Depart(p)
    /\ UNCHANGED <<state, stateRef, roomRef, pc, now, threw>>

\* useEffect(() => { stateRef.current = state }, [state]) after a render
Render(p) ==
    /\ stateRef[p] # state[p]
    /\ stateRef' = [stateRef EXCEPT ![p] = state[p]]
    /\ UNCHANGED <<state, roomRef, connected, pc, inRoom, net, presence, now, threw>>

(***************************************************************************)
(* Local actions                                                           *)
(***************************************************************************)
\* the player presses Draw
Draw(p) ==
    /\ connected[p]
    /\ CanSend(p)
    /\ \E e \in draw(p) : Apply(p, e, net)
    /\ UNCHANGED <<stateRef, roomRef, connected, pc, inRoom, presence, now, threw>>

\* changeDrink(n): the player's own drinks counter, patched locally and announced
changeDrink(p, n) ==
    LET next == ensurePlayer(stateRef[p], p)
        d    == IF next.players[p].drinks + n < 0 THEN 0 ELSE next.players[p].drinks + n
    IN  Effect([next EXCEPT !.players[p].drinks = d], <<UpdateMsg(p, d)>>)

ChangeDrink(p) ==
    /\ connected[p]
    /\ CanSend(p)
    /\ \E n \in {-1, 1} : Apply(p, changeDrink(p, n), net)
    /\ UNCHANGED <<stateRef, roomRef, connected, pc, inRoom, presence, now, threw>>

\* startWaterfall(): the drawer presses Start
startWaterfall(p) ==
    LET current == stateRef[p]
    IN  IF current.waterfall = <<>> \/ current.waterfall[1].phase # "pending" THEN NoEffect
        ELSE IF current.host # p
             THEN [set |-> FALSE, st |-> emptyState, msgs |-> <<WaterfallStartMsg(p)>>]
        ELSE Effect(startWaterfallHost(current, p, now),
                    <<StateMsg(startWaterfallHost(current, p, now))>>)

StartWaterfall(p) ==
    /\ connected[p]
    /\ CanSend(p)
    /\ Apply(p, startWaterfall(p), net)
    /\ UNCHANGED <<stateRef, roomRef, connected, pc, inRoom, presence, now, threw>>

\* the host's 250 ms interval: tickWaterfallHost, then setState and STATE whenever
\* the result is not the very object read (it is always a clone)
Tick(p) ==
    /\ connected[p] /\ roomRef[p]
    /\ stateRef[p].host = p
    /\ CanSend(p)
    /\ LET next == tickWaterfallHost(stateRef[p], now)
       IN  Apply(p, Effect(next, <<StateMsg(next)>>), net)
    /\ UNCHANGED <<stateRef, roomRef, connected, pc, inRoom, presence, now, threw>>

\* the round of gs is active (prActive)
prActive(gs) == gs.powerRound # <<>> /\ gs.powerRound[1].active

\* canStartPower: the holder of the badge, while no round is active
canStartPower(gs, kind, who) ==
    /\ holderFor(gs, kind) # Null /\ holderFor(gs, kind) = who
    /\ ~prActive(gs)

\* iCanTap: eligible and not yet tapped in the active round
iCanTap(gs, who) ==
    /\ prActive(gs)
    /\ includes(gs.powerRound[1].eligible, who)
    /\ ~includes(gs.powerRound[1].tapped, who)

PowerKinds == {"heaven", "thumb"}

\* a local action of p: a guest sends the request, the host applies next and
\* broadcasts it
requestOrApply(p, request, next) ==
    IF stateRef[p].host # p
    THEN [set |-> FALSE, st |-> emptyState, msgs |-> <<request>>]
    ELSE Effect(next, <<StateMsg(next)>>)

\* startPower(kind), behind the badge button enabled by canStartPower
StartPower(p) ==
    /\ connected[p]
    /\ CanSend(p)
    /\ \E kind \in PowerKinds :
          /\ canStartPower(stateRef[p], kind, p)
          /\ Apply(p, requestOrApply(p, PowerStartMsg(kind, p),
                                     startPowerRoundHost(stateRef[p], kind, p, now)), net)
    /\ UNCHANGED <<stateRef, roomRef, connected, pc, inRoom, presence, now, threw>>

\* tapPower(kind), behind the badge button enabled by iCanTap in a round of the kind
TapPower(p) ==
    /\ connected[p]
    /\ CanSend(p)
    /\ iCanTap(stateRef[p], p)
    /\ LET kind == stateRef[p].powerRound[1].kind
       IN  Apply(p, requestOrApply(p, PowerTapMsg(kind, p),
                                   tapPowerHost(stateRef[p], kind, p)), net)
    /\ UNCHANGED <<stateRef, roomRef, connected, pc, inRoom, presence, now, threw>>

\* clearPower(), behind the button shown while a round exists
ClearPower(p) ==
    /\ connected[p]
    /\ CanSend(p)
    /\ stateRef[p].powerRound # <<>>
    /\ Apply(p, requestOrApply(p, PowerClearMsg(p), clearPowerHost(stateRef[p])), net)
    /\ UNCHANGED <<stateRef, roomRef, connected, pc, inRoom, presence, now, threw>>

\* qmCaught(target): the Question Master picks another player of the table
QmCaught(p) ==
    /\ connected[p]
    /\ CanSend(p)
    /\ stateRef[p].qmHolder = p
    /\ \E target \in PlayerIds(stateRef[p]) \ {p} :
          Apply(p, requestOrApply(p, QmCaughtMsg(p, target),
                                  qmCaughtHost(stateRef[p], p, target)), net)
    /\ UNCHANGED <<stateRef, roomRef, connected, pc, inRoom, presence, now, threw>>

\* the rule texts a King types
Texts == {<<"r">>, <<" ", "r", " ">>}

\* kingAddRule(): the King holder submits a non-blank text
KingAddRule(p) ==
    /\ connected[p]
    /\ CanSend(p)
    /\ stateRef[p].kingHolder = p
    /\ \E text \in Texts :
          Apply(p, requestOrApply(p, KingAddRuleMsg(p, trim(text)),
                                  kingAddRuleHost(stateRef[p], p, trim(text), now)), net)
    /\ UNCHANGED <<stateRef, roomRef, connected, pc, inRoom, presence, now, threw>>

\* kingRemoveRule(ruleId), behind the x shown to the host and to the rule's author
KingRemoveRule(p) ==
    /\ connected[p]
    /\ CanSend(p)
    /\ \E i \in 1..Len(stateRef[p].kingRules) :
          LET r == stateRef[p].kingRules[i]
          IN  /\ p = stateRef[p].host \/ p = r.by
              /\ Apply(p, requestOrApply(p, KingRemoveRuleMsg(p, r.id),
                                         kingRemoveRuleHost(stateRef[p], p, r.id)), net)
    /\ UNCHANGED <<stateRef, roomRef, connected, pc, inRoom, presence, now, threw>>

\* time passes; only followed while some Waterfall is pending or running
AdvanceClock ==
    /\ \E p \in Ids : isDeckLocked(state[p]) \/ isDeckLocked(stateRef[p])
    /\ \E d \in ClockSteps : now' = now + d
    /\ UNCHANGED <<state, stateRef, roomRef, connected, pc, inRoom, net, presence, threw>>

(***************************************************************************)
(* Inbound events                                                          *)
(***************************************************************************)
\* a request branch of the DataReceived handler: the host computes next from
\* stateRef.current, sets it and broadcasts it; every other peer does nothing
hostApplies(p, next) ==
    IF stateRef[p].host = p THEN {Effect(next, <<StateMsg(next)>>)} ELSE {NoEffect}

\* mutant: the POWER_CLEAR branch clearing for any requester
onPowerClear_AnyoneClears(p, requestedBy) ==
    LET current == stateRef[p]
    IN  IF current.host # p THEN {NoEffect}
        ELSE IF current.powerRound = <<>> THEN {NoEffect}
        ELSE {Effect(clearPowerHost(current), <<StateMsg(clearPowerHost(current))>>)}

\* the POWER_CLEAR branch: the host clears for itself or for the round's holder
onPowerClear(p, requestedBy) ==
    LET current == stateRef[p]
    IN  IF current.host # p THEN {NoEffect}
        ELSE IF current.powerRound = <<>> THEN {NoEffect}
        ELSE LET holder == holderFor(current, current.powerRound[1].kind)
             IN  IF requestedBy = current.host \/ (holder # Null /\ requestedBy = holder)
                 THEN {Effect(clearPowerHost(current), <<StateMsg(clearPowerHost(current))>>)}
                 ELSE {NoEffect}

\* the handler reads a property of undefined: STATE without data (msg.data.host),
\* UPDATE without id (Object.assign(n.players[undefined], ...))
raises(msg) ==
    \/ field(msg, "type") = "STATE" /\ "data" \notin DOMAIN msg
    \/ field(msg, "type") = "UPDATE" /\ "id" \notin DOMAIN msg

\* RoomEvent.DataReceived at p for the oldest payload from q: the effect of the
\* branch the payload's type selects
onData(p, msg) ==
    LET type == field(msg, "type")
    IN  IF raises(msg) THEN {NoEffect}
        ELSE IF type = "STATE" THEN {Effect(onState(msg.data), <<>>)}
        ELSE IF type = "DRAW"
             THEN IF roomRef[p] /\ stateRef[p].host = p THEN draw(p) ELSE {NoEffect}
        ELSE IF type = "POWER_START"
             THEN hostApplies(p, startPowerRoundHost(stateRef[p], field(msg, "kind"),
                                                     field(msg, "requestedBy"), now))
        ELSE IF type = "POWER_TAP"
             THEN hostApplies(p, tapPowerHost(stateRef[p], field(msg, "kind"), field(msg, "by")))
        ELSE IF type = "POWER_CLEAR" THEN onPowerClear(p, field(msg, "requestedBy"))
        ELSE IF type = "WATERFALL_START"
             THEN hostApplies(p, startWaterfallHost(stateRef[p], field(msg, "requestedBy"), now))
        ELSE IF type = "QM_CAUGHT"
             THEN hostApplies(p, qmCaughtHost(stateRef[p], field(msg, "requestedBy"),
                                              field(msg, "target")))
        ELSE IF type = "KING_ADD_RULE"
             THEN hostApplies(p, kingAddRuleHost(stateRef[p], field(msg, "requestedBy"),
                                                 field(msg, "text"), now))
        ELSE IF type = "KING_REMOVE_RULE"
             THEN hostApplies(p, kingRemoveRuleHost(stateRef[p], field(msg, "requestedBy"),
                                                    field(msg, "ruleId")))
        ELSE IF type = "UPDATE"
             THEN IF "patch" \in DOMAIN msg
                  THEN {Effect(onUpdate(state[p], msg.id, msg.patch), <<>>)}
                  ELSE {Effect(ensurePlayer(state[p], msg.id), <<>>)}
        ELSE {NoEffect}

\* the types whose branch may publish a STATE in response
Requests == {"DRAW", "POWER_START", "POWER_TAP", "POWER_CLEAR", "WATERFALL_START",
             "QM_CAUGHT", "KING_ADD_RULE", "KING_REMOVE_RULE"}

DataReceived(p, q) ==
    /\ roomRef[p] /\ inRoom[p]
    /\ net[<<q, p>>] # <<>>
    /\ LET buf  == Head(net[<<q, p>>])
           netv == [net EXCEPT ![<<q, p>>] = Tail(@)]
       IN  IF decode(buf) = <<>>
           THEN net' = netv /\ UNCHANGED <<state, threw>>
           ELSE LET msg == decode(buf)[1]
                IN  /\ field(msg, "type") \in Requests => CanSend(p)
                    /\ \E e \in onData(p, msg) : Apply(p, e, netv)
                    /\ threw' = [threw EXCEPT ![p] = @ \/ raises(msg)]
    /\ UNCHANGED <<stateRef, roomRef, connected, pc, inRoom, presence, now>>

\* RoomEvent.ParticipantConnected / ParticipantDisconnected at p
ParticipantEvent(p) ==
    /\ roomRef[p] /\ inRoom[p]
    /\ presence[p] # <<>>
    /\ LET ev == Head(presence[p])
       IN  state' = [state EXCEPT ![p] =
                        IF ev[1] = "joined" THEN onParticipantConnected(@, ev[2])
                        ELSE onParticipantDisconnected(@, ev[2])]
    /\ presence' = [presence EXCEPT ![p] = Tail(@)]
    /\ UNCHANGED <<stateRef, roomRef, connected, pc, inRoom, net, now, threw>>

\* RoomEvent.TrackSubscribed at p for a track of q
TrackSubscribed(p, q) ==
    /\ roomRef[p] /\ inRoom[p]
    /\ q # p /\ inRoom[q] /\ connected[q]
    /\ state[p] # onParticipantConnected(state[p], q)
    /\ state' = [state EXCEPT ![p] = onParticipantConnected(@, q)]
    /\ UNCHANGED <<stateRef, roomRef, connected, pc, inRoom, net, presence, now, threw>>

\* an event of the user or the environment, counted against the budget of Spec
External(A) == events < MaxEvents /\ A /\ events' = events + 1
\* a handler or continuation the program runs in response
Internal(A) == A /\ UNCHANGED events

Next ==
    \/ \E p \in Ids : External(ConnectStart(p))
    \/ \E p \in Ids : Internal(ConnectFinish(p))
    \/ \E p \in Ids : External(ConnectFail(p))
    \/ \E p \in Ids : External(Disconnect(p))
    \/ \E p \in Ids : External(SessionDisconnected(p))
    \/ \E p \in Ids : Internal(Render(p))
    \/ \E p \in Ids : External(Draw(p))
    \/ \E p \in Ids : External(ChangeDrink(p))
    \/ \E p \in Ids : External(StartWaterfall(p))
    \/ \E p \in Ids : External(Tick(p))
    \/ External(AdvanceClock)
    \/ \E p, q \in Ids : Internal(DataReceived(p, q))
    \/ \E p \in Ids : Internal(ParticipantEvent(p))
    \/ \E p, q \in Ids : External(TrackSubscribed(p, q))

Spec == Init /\ [][Next]_vars


(***************************************************************************)
(* SpecDeck: one player alone at the table draws through the whole deck    *)
(***************************************************************************)
Solo == Names[1]

\* an event of SpecDeck: not counted
Free(A) == A /\ UNCHANGED events

\* the Waterfall of gs is running and not yet over at time t
waterfallRunning(gs, t) ==
    /\ gs.waterfall # <<>>
    /\ gs.waterfall[1].phase = "active"
    /\ t - gs.waterfall[1].startedAt < gs.waterfall[1].durationSec * 1000

DeckDraw ==
    /\ Solo \in PlayerIds(stateRef[Solo])
    /\ stateRef[Solo].players[Solo].cardsDrawn < MaxDeckDraws
    /\ Draw(Solo)

DeckClock ==
    /\ now < MaxDeckNow
    /\ waterfallRunning(stateRef[Solo], now) \/ waterfallRunning(state[Solo], now)
    /\ AdvanceClock

NextDeck ==
    \/ Free(ConnectStart(Solo))
    \/ Free(ConnectFinish(Solo))
    \/ Free(Render(Solo))
    \/ Free(DeckDraw)
    \/ Free(StartWaterfall(Solo))
    \/ Free(Tick(Solo))
    \/ Free(DeckClock)

SpecDeck == Init /\ [][NextDeck]_vars


(***************************************************************************)
(* SpecHost: the table at the pace of its players. A player acts, or a      *)
(* participant publishes a payload of its own making, only once every       *)
(* message has been handled and every peer has rendered.                    *)
(***************************************************************************)
\* nothing is in flight and every stateRef is in sync
Settled ==
    /\ \A c \in Chans : net[c] = <<>>
    /\ \A p \in Ids : presence[p] = <<>> /\ stateRef[p] = state[p] /\ pc[p] = "idle"

\* the requests a participant q may publish whatever its screen shows
ForeignRequests(q) ==
    { DrawMsg(q), PowerStartMsg("heaven", q), PowerTapMsg("heaven", q), PowerClearMsg(q),
      WaterfallStartMsg(q), QmCaughtMsg(q, Names[1]), KingAddRuleMsg(q, <<"r">>),
      KingRemoveRuleMsg(q, 1) }

\* payloads no handler branch expects: bytes that are not JSON, JSON without a
\* type tag, an unknown tag, STATE without data, UPDATE without id
Malformed ==
    { NotJson, [note |-> "hello"], [type |-> "PING"], [type |-> "STATE"],
      [type |-> "UPDATE"] }

\* a STATE whose data carries only some of the fields
PartialStates(q) == { [type |-> "STATE", data |-> [host |-> q]] }

\* payloads of q that name p: a clear request in p's name, and a STATE that
\* makes p the host of a table where q holds Heaven and has a round running
Forged(q, p) ==
    { PowerClearMsg(p),
      [type |-> "STATE",
       data |-> [host |-> p, heavenHolder |-> q,
                 powerRound |-> << [kind |-> "heaven", active |-> TRUE, startedBy |-> q,
                                    eligible |-> <<q>>, tapped |-> <<>>, loser |-> Null,
                                    startedAt |-> 0] >>]] }

\* participant q publishes a payload to p
ForeignPayload(q, p) ==
    /\ q # p /\ inRoom[q] /\ inRoom[p] /\ roomRef[p]
    /\ Len(net[<<q, p>>]) < MaxQueue
    /\ \E buf \in ForeignRequests(q) \cup Malformed \cup PartialStates(q) \cup Forged(q, p) :
          net' = [net EXCEPT ![<<q, p>>] = Append(@, buf)]
    /\ UNCHANGED <<state, stateRef, roomRef, connected, pc, inRoom, presence, now, threw>>

\* an event of SpecHost
HostEvent(A) == Settled /\ events < MaxHostEvents /\ A /\ events' = events + 1

NextHost ==
    \/ \E p \in Ids : HostEvent(ConnectStart(p))
    \/ \E p \in Ids : Internal(ConnectFinish(p))
    \/ \E p \in Ids : HostEvent(Disconnect(p))
    \/ \E p \in Ids : Internal(Render(p))
    \/ \E p \in Ids : HostEvent(Draw(p))
    \/ \E p \in Ids : HostEvent(StartPower(p))
    \/ \E p \in Ids : HostEvent(TapPower(p))
    \/ \E p \in Ids : HostEvent(ClearPower(p))
    \/ \E p \in Ids : HostEvent(QmCaught(p))
    \/ \E p \in Ids : HostEvent(KingAddRule(p))
    \/ \E p \in Ids : HostEvent(KingRemoveRule(p))
    \/ \E p \in Ids : HostEvent(StartWaterfall(p))
    \/ \E p, q \in Ids : HostEvent(TrackSubscribed(p, q))
    \/ \E p, q \in Ids : HostEvent(ForeignPayload(q, p))
    \/ \E p, q \in Ids : Internal(DataReceived(p, q))
    \/ \E p \in Ids : Internal(ParticipantEvent(p))

SpecHost == Init /\ [][NextHost]_vars

(***************************************************************************)
(* SpecRace: a power round played while room events arrive back to back:   *)
(* a payload or a presence event may be handled before the peer has        *)
(* rendered the state the previous one produced, and a player may leave    *)
(* while its last request is still in flight. A click is handled on a      *)
(* rendered screen.                                                        *)
(***************************************************************************)
Racing(A) == events < MaxRaceEvents /\ A /\ events' = events + 1

\* the table is set up calmly: joins and track subscriptions happen when settled
Calm(A) == Settled /\ Racing(A)

\* p clicks after its latest state has been rendered
Click(p, A) == stateRef[p] = state[p] /\ Racing(A)

NextRace ==
    \/ \E p \in Ids : Calm(ConnectStart(p))
    \/ \E p \in Ids : Internal(ConnectFinish(p))
    \/ \E p \in Ids : Racing(Disconnect(p))
    \/ \E p \in Ids : Internal(Render(p))
    \/ \E p \in Ids : Click(p, Draw(p))
    \/ \E p \in Ids : Click(p, StartPower(p))
    \/ \E p \in Ids : Click(p, TapPower(p))
    \/ \E p, q \in Ids : Calm(TrackSubscribed(p, q))
    \/ \E p, q \in Ids : Internal(DataReceived(p, q))
    \/ \E p \in Ids : Internal(ParticipantEvent(p))

SpecRace == Init /\ [][NextRace]_vars

(***************************************************************************)
(* SpecClock: two players draw in turn while the clock runs: Waterfalls    *)
(* are started and the host's interval ends them. Players act and the      *)
(* interval fires once every message is handled and every peer rendered.   *)
(***************************************************************************)
ClockEvent(A) == Settled /\ events < MaxClockEvents /\ A /\ events' = events + 1

NextClock ==
    \/ \E p \in Ids : ClockEvent(ConnectStart(p))
    \/ \E p \in Ids : Internal(ConnectFinish(p))
    \/ \E p \in Ids : Internal(Render(p))
    \/ \E p \in Ids : ClockEvent(Draw(p))
    \/ \E p \in Ids : ClockEvent(StartWaterfall(p))
    \/ \E p \in Ids : ClockEvent(Tick(p))
    \/ ClockEvent(AdvanceClock)
    \/ \E p, q \in Ids : ClockEvent(TrackSubscribed(p, q))
    \/ \E p, q \in Ids : Internal(DataReceived(p, q))
    \/ \E p \in Ids : Internal(ParticipantEvent(p))

SpecClock == Init /\ [][NextClock]_vars

(***************************************************************************)
(* SpecLive: the table of SpecClock with the host's interval and the clock *)
(* running on their own. The 250 ms interval of a connected host keeps     *)
(* firing, renders are committed, delivered events are handled, and time   *)
(* passes while a host has a Waterfall running.                            *)
(***************************************************************************)
LiveEvent(A) == Settled /\ events < MaxLiveEvents /\ A /\ events' = events + 1

\* time passes; followed only while the Waterfall of some host is running
LiveClock ==
    /\ \E p \in Ids :
          /\ connected[p] /\ state[p].host = p
          /\ waterfallRunning(state[p], now) \/ waterfallRunning(stateRef[p], now)
    /\ AdvanceClock

NextLive ==
    \/ \E p \in Ids : LiveEvent(ConnectStart(p))
    \/ \E p \in Ids : Internal(ConnectFinish(p))
    \/ \E p \in Ids : Internal(Render(p))
    \/ \E p \in Ids : LiveEvent(Draw(p))
    \/ \E p \in Ids : LiveEvent(StartWaterfall(p))
    \/ \E p \in Ids : LiveEvent(Disconnect(p))
    \/ \E p \in Ids : Internal(Tick(p))
    \/ Internal(LiveClock)
    \/ \E p, q \in Ids : Internal(DataReceived(p, q))
    \/ \E p \in Ids : Internal(ParticipantEvent(p))

SpecLive ==
    /\ Init /\ [][NextLive]_vars
    /\ \A p \in Ids : WF_vars(Internal(Tick(p)))
    /\ \A p \in Ids : WF_vars(Internal(Render(p)))
    /\ \A p \in Ids : WF_vars(Internal(ConnectFinish(p)))
    /\ \A p \in Ids : WF_vars(Internal(ParticipantEvent(p)))
    /\ \A p, q \in Ids : WF_vars(Internal(DataReceived(p, q)))
    /\ WF_vars(Internal(LiveClock))

(***************************************************************************)
(* Claims                                                                  *)
(***************************************************************************)
\* the peers that regard themselves as host
SelfHosts == {p \in Ids : connected[p] /\ state[p].host = p}

\* C1: in every reachable state at most one connected peer regards itself as
\* host (its local state.host equals its own identity).
C1_AtMostOneHost == Cardinality(SelfHosts) <= 1

\* C2: once a connected peer h is host, no peer's recorded host changes to an
\* identity other than h while h stays connected (a peer's own reset to null
\* apart); a later joiner does not make itself host.
C2_HostNeverReplaced ==
    [][\A h \in Ids :
          (connected[h] /\ state[h].host = h /\ connected'[h])
          => \A p \in Ids : state'[p].host \in {state[p].host, h, Null}]_vars

\* a step in which connected peer p replaces its state by the payload of the
\* oldest STATE message some peer q sent it
ReplacedByState(p) ==
    \E q \in Ids :
        /\ net[<<q, p>>] # <<>>
        /\ field(Head(net[<<q, p>>]), "type") = "STATE"
        /\ net'[<<q, p>>] = Tail(net[<<q, p>>])
        /\ state'[p] = onState(Head(net[<<q, p>>]).data)

\* C3: a connected peer that is not host changes its local game state only by
\* replacing it wholesale with the payload of an inbound STATE broadcast.
C3_GuestOnlyReplaces ==
    [][\A p \in Ids :
          (connected[p] /\ connected'[p] /\ state[p].host # p /\ stateRef[p].host # p
             /\ state'[p] # state[p])
          => ReplacedByState(p)]_vars

\* C4: a peer whose identity differs from its local state.host never publishes
\* a STATE message: every STATE message in flight names its publisher as host.
C4_OnlyHostPublishesState ==
    \A c \in Chans : \A i \in 1..Len(net[c]) :
        net[c][i].type = "STATE" => net[c][i].data.host = c[1]

\* every published message has been delivered and handled, every render done
Quiescent ==
    /\ \A c \in Chans : net[c] = <<>>
    /\ \A p \in Ids : presence[p] = <<>> /\ stateRef[p] = state[p] /\ pc[p] = "idle"

\* C5: whenever every published message has been delivered and handled, every
\* connected guest's local game state equals the host's local game state.
C5_QuiescentAgreement ==
    Quiescent =>
        \A h, g \in Ids :
            (connected[h] /\ connected[g] /\ state[h].host = h) => state[g] = state[h]

\* C6: in every reachable state of every peer, turn is null or a key of players.
C6_TurnValid ==
    \A p \in Ids : state[p].turn = Null \/ state[p].turn \in PlayerIds(state[p])

\* host h applies the draw that the oldest payload from g requests
AppliesRequestedDraw(h, g) ==
    /\ DataReceived(h, g)
    /\ field(Head(net[<<g, h>>]), "type") = "DRAW"
    /\ roomRef[h] /\ stateRef[h].host = h /\ state[h].host = h
    /\ ~isDeckLocked(stateRef[h])

\* cardsDrawn of id in gs, 0 for an unknown identity
cardsDrawnOf(gs, id) == IF id \in PlayerIds(gs) THEN gs.players[id].cardsDrawn ELSE 0

\* C7: when the host applies a draw requested by guest g, the draw is attributed
\* to g: g's cardsDrawn increases by one, lastDrawBy becomes g, a 7/J/Q/K sets
\* the matching holder to g and an Ace makes g the Waterfall drawer.
C7_DrawAttributedToRequester ==
    [][\A h, g \in Ids :
          AppliesRequestedDraw(h, g)
          => LET by   == Head(net[<<g, h>>]).requestedBy
                 rank == parseCard(state'[h].currentCard).rank
             IN  /\ state'[h].lastDrawBy = by
                 /\ cardsDrawnOf(state'[h], by) = cardsDrawnOf(stateRef[h], by) + 1
                 /\ rank = <<"7">> => state'[h].heavenHolder = by
                 /\ rank = <<"J">> => state'[h].thumbHolder = by
                 /\ rank = <<"Q">> => state'[h].qmHolder = by
                 /\ rank = <<"K">> => state'[h].kingHolder = by
                 /\ rank = <<"A">> => state'[h].waterfall[1].drawer = by]_vars


\* p regards some other identity as host, in its state and in stateRef.current
IsGuest(p) == state[p].host # p /\ stateRef[p].host # p

\* C8: when a peer that is not host calls draw while the deck is unlocked, its
\* local state (deck, currentCard, turn, player stats) is unchanged and exactly
\* one DRAW request is sent to every other participant, and nothing else.
C8_GuestDrawOnlyRequests ==
    [][\A p \in Ids :
          (Draw(p) /\ IsGuest(p) /\ ~isDeckLocked(state[p]) /\ ~isDeckLocked(stateRef[p]))
          => /\ state'[p] = state[p]
             /\ \A c \in Chans :
                   net'[c] = IF c[1] = p /\ c[2] \in Others(p)
                             THEN Append(net[c], DrawMsg(p)) ELSE net[c]]_vars

\* a guest's DRAW request is on its way to another participant
C8_Witness ==
    \E p, q \in Ids :
        /\ connected[p] /\ IsGuest(p) /\ state[p].host # Null
        /\ \E i \in 1..Len(net[<<p, q>>]) : net[<<p, q>>][i] = DrawMsg(p)

\* the elements of a sequence
Range(seq) == {seq[i] : i \in 1..Len(seq)}

\* the host p presses Draw and the draw is applied
AppliesOwnDraw(p) ==
    /\ Draw(p)
    /\ roomRef[p] /\ stateRef[p].host = p
    /\ ~isDeckLocked(stateRef[p])

\* host p applies a draw: its own or one a guest requested
AppliesDraw(p) ==
    \/ AppliesOwnDraw(p)
    \/ \E g \in Ids : /\ DataReceived(p, g)
                      /\ field(Head(net[<<g, p>>]), "type") = "DRAW"
                      /\ roomRef[p] /\ stateRef[p].host = p
                      /\ ~isDeckLocked(stateRef[p])

\* C9: every draw applied by the host to the state it read leaves currentCard
\* non-null: from an empty deck it first rebuilds the full 52-card deck and 51
\* cards remain; otherwise it draws the front card and the rest remains.
C9_DrawPopsFront ==
    [][\A p \in Ids :
          AppliesDraw(p)
          => LET cur == stateRef[p]
                 nxt == state'[p]
             IN  /\ nxt.currentCard # <<>>
                 /\ IF Len(cur.deck) = 0
                    THEN /\ Len(nxt.deck) = 51
                         /\ Range(nxt.deck) \cup {nxt.currentCard} = Range(buildDeck)
                         /\ Cardinality(Range(buildDeck)) = 52
                    ELSE /\ nxt.currentCard = Head(cur.deck)
                         /\ nxt.deck = Tail(cur.deck)]_vars

\* the host has drawn a whole deck and the first card of the reshuffled one
C9_Witness ==
    /\ state[Solo].host = Solo
    /\ Len(state[Solo].deck) = 51
    /\ state[Solo].players[Solo].cardsDrawn = 53

\* C10: right after the host applies a draw whose card is an Ace, a Waterfall
\* exists in phase pending with the drawer recorded, its start time unset and
\* durationSec an integer in 5..20, the deck is locked and turn is the drawer.
C10_AceDraw ==
    [][\A p \in Ids :
          (AppliesDraw(p) /\ parseCard(state'[p].currentCard).rank = <<"A">>)
          => /\ state'[p].waterfall # <<>>
             /\ state'[p].waterfall[1].phase = "pending"
             /\ state'[p].waterfall[1].drawer = state'[p].lastDrawBy
             /\ state'[p].waterfall[1].drawer # Null
             /\ state'[p].waterfall[1].startedAt = 0
             /\ state'[p].waterfall[1].durationSec \in 5..20
             /\ isDeckLocked(state'[p])
             /\ state'[p].turn = state'[p].waterfall[1].drawer]_vars

\* a host holds the pending Waterfall of the Ace it has just drawn
C10_Witness ==
    \E p \in Ids :
        /\ state[p].host = p
        /\ parseCard(state[p].currentCard).rank = <<"A">>
        /\ state[p].waterfall # <<>>
        /\ state[p].waterfall[1].phase = "pending"
        /\ state[p].waterfall[1].durationSec = 20
        /\ state[p].lastDrawBy # Null

\* the oldest payload q sent to p is a request of this type, about to be handled
HeadIs(p, q, type) ==
    /\ net[<<q, p>>] # <<>>
    /\ field(Head(net[<<q, p>>]), "type") = type

\* p handles the oldest payload of q and nothing else happens to the channels
OnlyConsumed(p, q) == net' = [net EXCEPT ![<<q, p>>] = Tail(@)]

\* C11: in every reachable state the deck is locked if and only if a Waterfall
\* exists, and a Waterfall is always pending or active; a draw attempted while
\* the deck is locked in the state draw() reads, by the host's own click or on a
\* guest's DRAW request, changes no field of the game state and publishes nothing.
C11_LockedDeckRefusesDraw ==
    /\ [](\A p \in Ids :
            /\ isDeckLocked(state[p]) <=> state[p].waterfall # <<>>
            /\ state[p].waterfall # <<>> => state[p].waterfall[1].phase \in {"pending", "active"})
    /\ [][\A p \in Ids :
            /\ (Draw(p) /\ isDeckLocked(stateRef[p])) => (state' = state /\ net' = net)
            /\ \A q \in Ids :
                  (DataReceived(p, q) /\ HeadIs(p, q, "DRAW") /\ isDeckLocked(stateRef[p]))
                  => (state' = state /\ OnlyConsumed(p, q))]_vars

\* the host holds a locked deck and a guest's DRAW request is about to reach it
C11_Witness ==
    \E p, q \in Ids :
        /\ connected[p] /\ state[p].host = p /\ stateRef[p] = state[p]
        /\ isDeckLocked(state[p])
        /\ HeadIs(p, q, "DRAW")

\* C12: for every power round a participant holds, active is false exactly when
\* every eligible player has tapped (tapped.length = eligible.length), also
\* after departures shrank the eligible list, possibly to empty.
C12_ActiveIffNotAllTapped ==
    \A p \in Ids :
        state[p].powerRound # <<>> =>
            LET pr == state[p].powerRound[1]
            IN  (~pr.active) <=> (Len(pr.tapped) = Len(pr.eligible))

\* C13: a resolved power round (active false) names as loser the last entry of
\* tapped, the last eligible player to tap; while the round is active loser is null.
C13_LoserIsLastTapped ==
    \A p \in Ids :
        state[p].powerRound # <<>> =>
            LET pr == state[p].powerRound[1]
            IN  /\ pr.active => pr.loser = Null
                /\ ~pr.active => /\ pr.tapped # <<>>
                                 /\ pr.loser = pr.tapped[Len(pr.tapped)]
                                 /\ \E i \in 1..Len(pr.eligible) : pr.eligible[i] = pr.loser

\* a participant holds a power round that two eligible players resolved by tapping
C13_Witness ==
    \E p \in Ids :
        /\ state[p].powerRound # <<>>
        /\ ~state[p].powerRound[1].active
        /\ Len(state[p].powerRound[1].tapped) = 2

\* the step is a start of a power round at p: its own click or a POWER_START request
StartsRound(p) ==
    \/ StartPower(p)
    \/ \E q \in Ids : DataReceived(p, q) /\ HeadIs(p, q, "POWER_START")

\* p holds the same power round before and after the step: same kind, starter
\* and start time, and the step did not replace it by a newly started one
SameRound(p) ==
    /\ state[p].powerRound # <<>>
    /\ state'[p].powerRound # <<>>
    /\ state'[p].powerRound[1].kind = state[p].powerRound[1].kind
    /\ state'[p].powerRound[1].startedBy = state[p].powerRound[1].startedBy
    /\ state'[p].powerRound[1].startedAt = state[p].powerRound[1].startedAt
    /\ ~(~state[p].powerRound[1].active /\ state'[p].powerRound[1].active)
    /\ ~StartsRound(p)

\* C14: from the start of a power round until it is cleared or replaced, its
\* eligible list never gains an identity; a player who joins mid-round is not added.
C14_EligibleNeverGrows ==
    [][\A p \in Ids :
          SameRound(p) =>
              Range(state'[p].powerRound[1].eligible) \subseteq Range(state[p].powerRound[1].eligible)]_vars

\* the step is an attempt of p to start the Waterfall on behalf of who
StartAttempt(p, who) ==
    \/ who = p /\ StartWaterfall(p)
    \/ \E q \in Ids : /\ DataReceived(p, q) /\ HeadIs(p, q, "WATERFALL_START")
                      /\ field(Head(net[<<q, p>>]), "requestedBy") = who

\* a start of the Waterfall p reads must be refused: none, not pending, or not the drawer
StartRefused(p, who) ==
    \/ stateRef[p].waterfall = <<>>
    \/ stateRef[p].waterfall[1].phase # "pending"
    \/ stateRef[p].waterfall[1].drawer # who

HolderSlots == {"heavenHolder", "thumbHolder", "qmHolder", "kingHolder"}
SlotRank(h) ==
    CASE h = "heavenHolder" -> <<"7">>
      [] h = "thumbHolder"  -> <<"J">>
      [] h = "qmHolder"     -> <<"Q">>
      [] h = "kingHolder"   -> <<"K">>

\* host p applies a draw made by who: its own click or who's DRAW request
AppliesDrawOf(p, who) ==
    \/ who = p /\ AppliesOwnDraw(p)
    \/ who # p /\ AppliesRequestedDraw(p, who)

\* C16: in the state of a host that stays in the room, each of the four holder
\* slots changes in only two ways: it is overwritten with the drawer when a card
\* of its own rank (7, J, Q, K) is drawn, and it becomes null when its holder
\* leaves; every other step leaves it unchanged.
C16_HolderSlotFrame ==
    [][\A p \in Ids :
          (connected[p] /\ connected'[p] /\ state[p].host = p) =>
              \A h \in HolderSlots :
                  state'[p][h] # state[p][h] =>
                      \/ \E who \in Ids :
                            /\ AppliesDrawOf(p, who)
                            /\ parseCard(state'[p].currentCard).rank = SlotRank(h)
                            /\ state'[p][h] = who
                      \/ /\ ParticipantEvent(p)
                         /\ Head(presence[p]) = <<"left", state[p][h]>>
                         /\ state'[p][h] = Null]_vars

\* p handles the peer-left event of id
HandlesLeft(p, id) ==
    /\ ParticipantEvent(p)
    /\ Head(presence[p]) = <<"left", id>>

\* C17: once p has handled the peer-left event of id, handling the same event
\* a second time changes nothing: players, turn, the four holder slots,
\* powerRound and waterfall stay as the first handling left them.
C17_PeerLeftIdempotent ==
    [][\A p, id \in Ids :
          HandlesLeft(p, id) =>
              onParticipantDisconnected(state'[p], id) = state'[p]]_vars

\* the cyclic successor of id in order
successorIn(order, id) == order[((indexOf(order, id) + 1) % Len(order)) + 1]

\* C18: when the player whose turn it is leaves, the turn passes to the
\* successor of the departed player in the turn order as it was before the
\* departure, wrapping to the front of the order.
C18_TurnPassesToSuccessor ==
    [][\A p, id \in Ids :
          (/\ HandlesLeft(p, id)
           /\ state[p].turn = id
           /\ includes(getTurnOrder(state[p]), id))
          => state'[p].turn = successorIn(getTurnOrder(state[p]), id)]_vars

\* the host function of the request msg refuses it on gs: the result is gs itself
Rejects(gs, msg, t) ==
    LET type == field(msg, "type")
        by   == field(msg, "requestedBy")
    IN  CASE type = "DRAW"             -> isDeckLocked(gs)
          [] type = "POWER_START"      -> startPowerRoundHost(gs, field(msg, "kind"), by, t) = gs
          [] type = "POWER_TAP"        -> tapPowerHost(gs, field(msg, "kind"), field(msg, "by")) = gs
          [] type = "POWER_CLEAR"      -> \/ gs.powerRound = <<>>
                                          \/ /\ by # gs.host
                                             /\ by # holderFor(gs, gs.powerRound[1].kind)
          [] type = "WATERFALL_START"  -> startWaterfallHost(gs, by, t) = gs
          [] type = "QM_CAUGHT"        -> qmCaughtHost(gs, by, field(msg, "target")) = gs
          [] type = "KING_ADD_RULE"    -> kingAddRuleHost(gs, by, field(msg, "text"), t) = gs
          [] type = "KING_REMOVE_RULE" -> kingRemoveRuleHost(gs, by, field(msg, "ruleId")) = gs
          [] OTHER                     -> FALSE

\* C19: a request the host rejects as unauthorized or invalid is dropped
\* silently: the host's state is unchanged and no message is published.
C19_RejectedRequestDropped ==
    [][\A p, q \in Ids :
          (/\ DataReceived(p, q)
           /\ decode(Head(net[<<q, p>>])) # <<>>
           /\ stateRef[p].host = p /\ stateRef[p] = state[p]
           /\ Rejects(stateRef[p], Head(net[<<q, p>>]), now))
          => (state' = state /\ OnlyConsumed(p, q))]_vars

\* C20: a received payload that is not JSON, has an unknown or missing type,
\* or has a known type but lacks its fields (a STATE without data) is ignored:
\* the receiver's state is unchanged, nothing is published and no error is raised.
C20_MalformedIgnored ==
    [][\A p, q \in Ids :
          (DataReceived(p, q) /\ Head(net[<<q, p>>]) \in Malformed)
          => (state' = state /\ OnlyConsumed(p, q) /\ threw' = threw)]_vars

\* C21: whenever a peer is not connected and not in the middle of joining
\* (after a failed connect, after leaving, after a session-disconnected event)
\* its local game state equals the empty initial state.
C21_NotConnectedIsEmpty ==
    \A p \in Ids : (~connected[p] /\ pc[p] = "idle") => state[p] = emptyState

\* p handles a STATE payload of q that has a data field
HandlesState(p, q) ==
    /\ DataReceived(p, q)
    /\ HeadIs(p, q, "STATE")
    /\ "data" \in DOMAIN Head(net[<<q, p>>])

\* field f of a STATE payload, or the value f has in the empty state if it is missing
payloadOr(data, f) == IF f \in DOMAIN data THEN data[f] ELSE emptyState[f]

RECURSIVE passTurn(_, _)
passTurn(gs, k) ==
    IF k = 0 THEN gs
    ELSE LET g == passTurn(gs, k - 1) IN [g EXCEPT !.turn = advanceTurn(g)]

Callers == {Names[i] : i \in 1..Len(Names)} \cup {Null}

\* C24: advance called on a state whose current identity is not in the turn
\* order returns the first element of the order; called with an identity that
\* is in the order it returns the next element cyclically, wrapping from the
\* last to the first.
C24_AdvanceRestartsAtFront ==
    \A p \in Ids, id \in Callers :
        LET gs    == [state[p] EXCEPT !.turn = id]
            order == getTurnOrder(gs)
        IN  order # <<>> =>
                advanceTurn(gs) = IF includes(order, id) THEN successorIn(order, id)
                                  ELSE order[1]

\* the position of a name in localeCompare order
rankOf(x) == CHOOSE i \in 1..Len(Names) : Names[i] = x

\* C25: turnOrder returns, without duplicates and capped at six entries, the
\* host first only if the host is a present player, followed by all other
\* present players in lexicographic order; every element is a key of players.
C25_TurnOrderOfPlayers ==
    \A p \in Ids :
        LET gs     == state[p]
            order  == getTurnOrder(gs)
            hosted == gs.host \in PlayerIds(gs)
            rest   == IF hosted THEN SubSeq(order, 2, Len(order)) ELSE order
        IN  /\ Len(order) <= 6
            /\ \A i, j \in 1..Len(order) : order[i] = order[j] => i = j
            /\ \A i \in 1..Len(order) : order[i] \in PlayerIds(gs)
            /\ hosted => (order # <<>> /\ order[1] = gs.host)
            /\ \A i, j \in 1..Len(rest) : i < j => rankOf(rest[i]) < rankOf(rest[j])
            /\ Cardinality(PlayerIds(gs)) <= 6 => Range(order) = PlayerIds(gs)

\* the round a start by b for kind k opens on the state gs: active, nobody has
\* tapped, no loser, eligible the turn order of gs with b in front if b is not in it
OpensRound(gs, r, k, b) ==
    LET order == getTurnOrder(gs)
    IN  /\ r.kind = k /\ r.startedBy = b
        /\ r.active /\ r.tapped = <<>> /\ r.loser = Null
        /\ r.eligible = IF includes(order, b) THEN order ELSE <<b>> \o order

\* C26: a power-round start by b for kind k, by the host's own click or on a
\* guest's POWER_START request, takes effect only if b holds the badge of k and
\* no round is active in the state the host reads; otherwise powerRound is left
\* as it was. When it takes effect the new round is active, tapped is empty,
\* loser is null and eligible is the turn order with b force-included.
C26_StartOnlyByHolder ==
    [][\A p \in Ids :
          LET cur == stateRef[p]
          IN  /\ (StartPower(p) /\ cur.host = p) =>
                    \E k \in PowerKinds :
                        /\ holderFor(cur, k) = p /\ ~prActive(cur)
                        /\ state'[p].powerRound # <<>>
                        /\ OpensRound(cur, state'[p].powerRound[1], k, p)
              /\ \A q \in Ids :
                    (DataReceived(p, q) /\ HeadIs(p, q, "POWER_START") /\ cur.host = p) =>
                        LET k == field(Head(net[<<q, p>>]), "kind")
                            b == field(Head(net[<<q, p>>]), "requestedBy")
                        IN  IF b # Null /\ holderFor(cur, k) = b /\ ~prActive(cur)
                            THEN /\ state'[p].powerRound # <<>>
                                 /\ OpensRound(cur, state'[p].powerRound[1], k, b)
                            ELSE state'[p].powerRound = cur.powerRound]_vars

\* a host holds a freshly started round in which two players are to tap
C26_Witness ==
    \E p \in Ids :
        /\ state[p].host = p /\ prActive(state[p])
        /\ state[p].powerRound[1].tapped = <<>>
        /\ state[p].powerRound[1].startedBy = p
        /\ Len(state[p].powerRound[1].eligible) = 2

\* a tap by b for kind k is accepted on the state gs
TapAccepted(gs, k, b) ==
    /\ prActive(gs) /\ gs.powerRound[1].kind = k
    /\ b # Null
    /\ includes(gs.powerRound[1].eligible, b)
    /\ ~includes(gs.powerRound[1].tapped, b)

\* the round of gs2 is the round of gs with b appended at the end of tapped
TapAppended(gs, gs2, b) ==
    /\ gs2.powerRound # <<>>
    /\ gs2.powerRound[1].tapped = Append(gs.powerRound[1].tapped, b)
    /\ gs2.powerRound[1].eligible = gs.powerRound[1].eligible
    /\ gs2.powerRound[1].kind = gs.powerRound[1].kind

\* C27: a tap by b, by the host's own click or on a guest's POWER_TAP request,
\* changes the round only if, in the state the host reads, the round is active
\* and of the tapped kind, b is in eligible and b is not yet in tapped; then b is
\* appended at the end of tapped. In every reachable state tapped holds no
\* identity twice and only identities of eligible.
C27_TapOnceIfEligible ==
    /\ [](\A p \in Ids :
            state[p].powerRound # <<>> =>
                LET pr == state[p].powerRound[1]
                IN  /\ \A i, j \in 1..Len(pr.tapped) : pr.tapped[i] = pr.tapped[j] => i = j
                    /\ Range(pr.tapped) \subseteq Range(pr.eligible))
    /\ [][\A p \in Ids :
            LET cur == stateRef[p]
            IN  /\ (TapPower(p) /\ cur.host = p) =>
                      /\ TapAccepted(cur, cur.powerRound[1].kind, p)
                      /\ TapAppended(cur, state'[p], p)
                /\ \A q \in Ids :
                      (DataReceived(p, q) /\ HeadIs(p, q, "POWER_TAP") /\ cur.host = p) =>
                          LET k == field(Head(net[<<q, p>>]), "kind")
                              b == field(Head(net[<<q, p>>]), "by")
                          IN  IF TapAccepted(cur, k, b)
                              THEN TapAppended(cur, state'[p], b)
                              ELSE state'[p].powerRound = cur.powerRound]_vars

\* a host holds an active round of two in which a guest was the one to tap
C27_Witness ==
    \E p \in Ids :
        /\ state[p].host = p /\ prActive(state[p])
        /\ Len(state[p].powerRound[1].eligible) = 2
        /\ Len(state[p].powerRound[1].tapped) = 1
        /\ state[p].powerRound[1].tapped[1] # p

\* seq without the entries equal to id
without(seq, id) == SelectSeq(seq, LAMBDA x : x # id)

\* C28: when p handles the departure of an identity that is in eligible while
\* the round of its state is active, the identity is removed from eligible and
\* from tapped, and if tapped is then as long as eligible the round resolves in
\* that same step (no longer active), the loser being the last remaining
\* element of tapped.
C28_LeaverResolvesRound ==
    [][\A p, id \in Ids :
          (/\ HandlesLeft(p, id)
           /\ prActive(state[p])
           /\ includes(state[p].powerRound[1].eligible, id)) =>
              LET pr == state[p].powerRound[1]
                  el == without(pr.eligible, id)
                  tp == without(pr.tapped, id)
              IN  /\ state'[p].powerRound # <<>>
                  /\ state'[p].powerRound[1].eligible = el
                  /\ state'[p].powerRound[1].tapped = tp
                  /\ Len(tp) = Len(el) =>
                        /\ ~state'[p].powerRound[1].active
                        /\ tp # <<>> => state'[p].powerRound[1].loser = tp[Len(tp)]]_vars

\* identity b may clear the round of gs: the host, or the holder of the round's kind
MayClear(gs, b) ==
    \/ b = gs.host
    \/ holderFor(gs, gs.powerRound[1].kind) # Null /\ b = holderFor(gs, gs.powerRound[1].kind)

\* C29: a clear request, by the host's own click or a POWER_CLEAR handled by the
\* host, removes the power round of the state the host reads, active or
\* resolved, when the requester is the host or the holder of the badge of the
\* round's kind; a clear request of any other identity leaves powerRound as it was.
C29_ClearByHostOrHolder ==
    [][\A p \in Ids :
          LET cur == stateRef[p]
          IN  /\ (ClearPower(p) /\ cur.host = p) => state'[p].powerRound = <<>>
              /\ \A q \in Ids :
                    (/\ DataReceived(p, q) /\ HeadIs(p, q, "POWER_CLEAR")
                     /\ cur.host = p /\ cur.powerRound # <<>>) =>
                        LET b == field(Head(net[<<q, p>>]), "requestedBy")
                        IN  IF MayClear(cur, b)
                            THEN state'[p].powerRound = <<>>
                            ELSE state'[p].powerRound = state[p].powerRound]_vars

\* a host whose table has another identity as Heaven holder, the holder's round
\* having been cleared
C29_Witness ==
    \E p \in Ids :
        /\ state[p].host = p
        /\ state[p].heavenHolder \in Ids \ {p}
        /\ state[p].powerRound = <<>>

\* C30: when the host's interval runs its completion check on a state whose
\* Waterfall is active, the Waterfall is cleared exactly when now >= startedAt +
\* duration and is kept while now is earlier; the step that clears it unlocks
\* the deck and moves turn to the cyclic successor of the drawer in the turn
\* order.
C30_WaterfallEndsOnTime ==
    [][\A p \in Ids :
          LET cur == stateRef[p]
          IN  (Tick(p) /\ cur.waterfall # <<>> /\ cur.waterfall[1].phase = "active") =>
                  LET wf    == cur.waterfall[1]
                      order == getTurnOrder(cur)
                  IN  IF now >= wf.startedAt + wf.durationSec * 1000
                      THEN /\ state'[p].waterfall = <<>>
                           /\ ~isDeckLocked(state'[p])
                           /\ includes(order, wf.drawer) =>
                                 state'[p].turn = successorIn(order, wf.drawer)
                      ELSE /\ state'[p].waterfall = cur.waterfall
                           /\ isDeckLocked(state'[p])
                           /\ state'[p].turn = cur.turn]_vars

\* a host of two players after its interval ended the Waterfall of its Ace:
\* the deck is unlocked and the turn is with the other player
C30_Witness ==
    \E p \in Ids :
        /\ state[p].host = p
        /\ Cardinality(PlayerIds(state[p])) = 2
        /\ state[p].currentCard # <<>> /\ Head(state[p].currentCard) = "A"
        /\ state[p].lastDrawBy = p
        /\ state[p].waterfall = <<>>
        /\ state[p].turn \in PlayerIds(state[p]) \ {p}

\* C31: in every reachable state of a peer that is host in its own state and
\* has a Waterfall, pending or active, turn is the Waterfall's drawer: nothing
\* moves the turn before the Waterfall is cleared.
C31_TurnPinnedToDrawer ==
    \A p \in Ids :
        (state[p].host = p /\ isDeckLocked(state[p])) =>
            state[p].turn = state[p].waterfall[1].drawer

\* a host of two players whose Waterfall is running
C31_Witness ==
    \E p \in Ids :
        /\ state[p].host = p
        /\ Cardinality(PlayerIds(state[p])) = 2
        /\ state[p].waterfall # <<>> /\ state[p].waterfall[1].phase = "active"
        /\ state[p].turn = p

\* C32: when p handles the departure of the drawer of the Waterfall of its
\* state, pending or active, the Waterfall is cleared, the deck is unlocked and
\* the turn advances by exactly one position, to the player who followed the
\* drawer in the turn order, a player present in players.
C32_DrawerLeavesTurnMovesOnce ==
    [][\A p, id \in Ids :
          (/\ HandlesLeft(p, id)
           /\ isDeckLocked(state[p])
           /\ state[p].waterfall[1].drawer = id
           /\ includes(getTurnOrder(state[p]), id)) =>
              /\ state'[p].waterfall = <<>>
              /\ ~isDeckLocked(state'[p])
              /\ state'[p].turn = successorIn(getTurnOrder(state[p]), id)
              /\ state'[p].turn \in PlayerIds(state'[p])]_vars

GameFields ==
    {"deck", "currentCard", "heavenHolder", "thumbHolder", "qmHolder", "kingHolder",
     "powerRound", "waterfall", "kingRules"}

\* new keeps the game of old: the game fields and the record of every player
\* other than id
JoinFrame(old, new, id) ==
    /\ \A f \in GameFields : new[f] = old[f]
    /\ \A x \in PlayerIds(old) \ {id} : x \in PlayerIds(new) /\ new.players[x] = old.players[x]

\* new has a record for id, and the turn of old unless that was null
JoinEffect(old, new, id) ==
    /\ id \in PlayerIds(new)
    /\ old.turn # Null => new.turn = old.turn

\* C34: handling a peer-joined event, and the joining peer's own join, adds a
\* player record for the joiner and sets turn only if it was null; neither
\* changes the deck, the current card, the holder slots, the power round, the
\* Waterfall, the King rules or the other players' records of a game in
\* progress, at the joiner or, through the state the joiner announces, at any
\* other peer.
C34_JoinKeepsGame ==
    [][\A p \in Ids :
          /\ \A id \in Ids :
                (ParticipantEvent(p) /\ Head(presence[p]) = <<"joined", id>>) =>
                    /\ JoinEffect(state[p], state'[p], id)
                    /\ JoinFrame(state[p], state'[p], id)
          /\ ConnectFinish(p) =>
                /\ JoinEffect(stateRef[p], state'[p], p)
                /\ stateRef[p].host # Null => JoinFrame(stateRef[p], state'[p], p)
                /\ \A q \in Others(p) :
                      state[q].host # Null =>
                          LET announced == net'[<<p, q>>][Len(net'[<<p, q>>])]
                          IN  JoinFrame(state[q], onState(announced.data), p)]_vars

\* guest g has handled the departure of the host of its state: the host's
\* record is gone from players while host still names it
HostGone(g) ==
    /\ connected[g]
    /\ state[g].host \notin {Null, g}
    /\ state[g].host \notin PlayerIds(state[g])

\* g handles a payload its departed host had published before leaving
LateBroadcast(g) ==
    /\ ~inRoom[state[g].host]
    /\ DataReceived(g, state[g].host)

\* C35: once a guest has seen its host leave, and for as long as the guest
\* stays, no step makes the guest host and no step changes its deck or its
\* current card, the broadcasts the host had published before leaving aside.
C35_FrozenWithoutHost ==
    [][\A g \in Ids :
          (HostGone(g) /\ connected'[g] /\ ~LateBroadcast(g)) =>
              /\ state'[g].host # g
              /\ state'[g].deck = state[g].deck
              /\ state'[g].currentCard = state[g].currentCard]_vars

\* C36: when the host handles a DRAW or POWER_TAP request while the state
\* produced by the previous transition has not yet reached its state
\* reference, the request is applied to that latest state: the host's
\* resulting state holds the effect of the previous transition and of this one.
C36_SecondRequestOnLatestState ==
    [][\A p, q \in Ids :
          (/\ DataReceived(p, q)
           /\ stateRef[p].host = p /\ state[p].host = p
           /\ state[p] # stateRef[p]) =>
              LET msg == Head(net[<<q, p>>])
              IN  /\ field(msg, "type") = "DRAW" =>
                        \/ isDeckLocked(state[p]) /\ state'[p] = state[p]
                        \/ /\ ~isDeckLocked(state[p])
                           /\ \E sd \in Seeds, r \in DurationSamples :
                                 state'[p] = drawNext(state[p], p, sd, r)
                  /\ field(msg, "type") = "POWER_TAP" =>
                        state'[p] = tapPowerHost(state[p], field(msg, "kind"),
                                                 field(msg, "by"))]_vars

(***************************************************************************)
(* SpecKing: a table whose host holds the King and has already written     *)
(* rules, up to one short of the cap of kingAddRuleHost. The host draws    *)
(* nothing more; rules are added and removed and requests arrive.          *)
(***************************************************************************)
\* n calls of kingAddRuleHost by the King holder
RECURSIVE rulesAdded(_, _)
rulesAdded(gs, n) ==
    IF n = 0 THEN gs
    ELSE kingAddRuleHost(rulesAdded(gs, n - 1), gs.kingHolder, <<"r">>, 1)

\* the host's state after connect() and the four draws that bring the first
\* King of the second sampled shuffle
KingTable ==
    LET h  == Names[1]
        s0 == connectNext(emptyState, h, SeedList[2])
        s1 == drawNext(s0, h, SeedList[2], 0)
        s2 == drawNext(s1, h, SeedList[2], 0)
        s3 == drawNext(s2, h, SeedList[2], 0)
    IN  drawNext(s3, h, SeedList[2], 0)

\* everyone is connected and has adopted the host's last STATE
InitKing ==
    /\ \E n \in {0, MaxRules - 1} :
          /\ state = [p \in Ids |-> rulesAdded(KingTable, n)]
          /\ stateRef = state
    /\ roomRef = [p \in Ids |-> TRUE]
    /\ connected = [p \in Ids |-> TRUE]
    /\ pc = [p \in Ids |-> "idle"]
    /\ inRoom = [p \in Ids |-> TRUE]
    /\ net = [c \in Chans |-> <<>>]
    /\ presence = [p \in Ids |-> <<>>]
    /\ now = 1
    /\ threw = [p \in Ids |-> FALSE]
    /\ events = 0

KingEvent(A) == Settled /\ events < MaxKingEvents /\ A /\ events' = events + 1

NextKing ==
    \/ \E p \in Ids : KingEvent(KingAddRule(p))
    \/ \E p \in Ids : KingEvent(KingRemoveRule(p))
    \/ \E p, q \in Ids : KingEvent(ForeignPayload(q, p))
    \/ \E p \in Ids : Internal(Render(p))
    \/ \E p, q \in Ids : Internal(DataReceived(p, q))

SpecKing == InitKing /\ [][NextKing]_vars

\* the King-rule list old after an accepted add by `by`: the new rule in
\* front, the rules it had behind it, cut at the cap
RuleAdded(old, new, by) ==
    /\ Len(new) = (IF Len(old) < MaxRules THEN Len(old) + 1 ELSE MaxRules)
    /\ new[1].by = by /\ new[1].text # <<>> /\ trim(new[1].text) = new[1].text
    /\ \A i \in 1..Len(old) : old[i].id # new[1].id
    /\ \A i \in 2..Len(new) : new[i] = old[i - 1]

\* the King-rule list old after an accepted removal of the rule ruleId
RuleRemoved(old, new, ruleId) ==
    new = SelectSeq(old, LAMBDA r : r.id # ruleId)

\* requester by may remove the rule ruleId of the table gs
MayRemove(gs, by, ruleId) ==
    \E i \in 1..Len(gs.kingRules) :
        /\ gs.kingRules[i].id = ruleId
        /\ by = gs.host \/ by = gs.kingRules[i].by

\* the King-rule request the host p is handling from q, if any
KingRequest(p, q) ==
    /\ DataReceived(p, q)
    /\ stateRef[p].host = p
    /\ decode(Head(net[<<q, p>>])) # <<>>
    /\ field(Head(net[<<q, p>>]), "type") \in {"KING_ADD_RULE", "KING_REMOVE_RULE"}

\* C37: at the host, an add request puts a rule in front of the King-rule list
\* exactly when the requester is the King holder and the trimmed text is not
\* empty; a remove request takes out the rule with the given id exactly when
\* the requester is its author or the host; every other add or remove request
\* leaves the list as it was; and no peer's list ever holds more than 20 rules.
C37_KingRulesAddRemoveOnly ==
    /\ [](\A p \in Ids : Len(state[p].kingRules) <= MaxRules)
    /\ [][\A p \in Ids :
            LET cur == stateRef[p]
                old == stateRef[p].kingRules
                new == state'[p].kingRules
            IN  /\ (KingAddRule(p) /\ cur.host = p) => RuleAdded(old, new, p)
                /\ (KingRemoveRule(p) /\ cur.host = p) =>
                      \E i \in 1..Len(old) : RuleRemoved(old, new, old[i].id) /\ new # old
                /\ \A q \in Ids :
                      KingRequest(p, q) =>
                         LET msg == Head(net[<<q, p>>])
                             by  == field(msg, "requestedBy")
                         IN  IF field(msg, "type") = "KING_ADD_RULE"
                             THEN IF cur.kingHolder # Null /\ by = cur.kingHolder
                                     /\ trim(field(msg, "text")) # <<>>
                                  THEN RuleAdded(old, new, by)
                                  ELSE new = old
                             ELSE IF MayRemove(cur, by, field(msg, "ruleId"))
                                  THEN RuleRemoved(old, new, field(msg, "ruleId"))
                                  ELSE new = old]_vars

\* the host's list is full, its newest rule was written after the table was
\* set up, and a remove request of a guest for a rule it did not write has
\* been answered with the list unchanged
C37_Witness ==
    \E p \in Ids :
        /\ state[p].host = p /\ state[p].kingHolder = p
        /\ Len(state[p].kingRules) = MaxRules
        /\ state[p].kingRules[1].id > MaxRules
        /\ events >= 3

\* the drinks shown for id: state.players[id]?.drinks ?? 0
drinksOf(gs, id) == IF id \in PlayerIds(gs) THEN gs.players[id].drinks ELSE 0

\* peer p runs changeDrink, or handles the UPDATE patch of id
DrinkStep(p, id) ==
    \/ p = id /\ ChangeDrink(p)
    \/ /\ DataReceived(p, id)
       /\ decode(Head(net[<<id, p>>])) # <<>>
       /\ field(Head(net[<<id, p>>]), "type") = "UPDATE"
       /\ field(Head(net[<<id, p>>]), "id") = id

\* C38: the drinks value a peer holds for a player who stays in the room
\* changes only when that player runs changeDrink or when the peer handles
\* that player's UPDATE patch; no other step (draw, power round, Waterfall,
\* Question-Master tag, King rule, join or leave handling) changes it.
C38_DrinksOnlyByOwner ==
    [][\A p, id \in Ids :
          (/\ inRoom[id] /\ inRoom'[id]
           /\ roomRef[p] /\ roomRef'[p]
           /\ drinksOf(state'[p], id) # drinksOf(state[p], id))
          => DrinkStep(p, id)]_vars

\* C39: a tick of the host's interval that finds no Waterfall to complete (none,
\* a pending one, or an active one whose duration has not elapsed) leaves the
\* host's state as it is and publishes no message.
C39_IdleTickSilent ==
    [][\A p \in Ids :
          (Tick(p) /\ tickWaterfallHost(stateRef[p], now) = stateRef[p])
          => (state' = state /\ net' = net)]_vars

\* the 52 rank-suit cards
CardSet == {ranks[i] \o <<suits[j]>> : i \in 1..Len(ranks), j \in 1..Len(suits)}

\* the cards of arr are pairwise distinct
distinct(arr) == \A i, j \in 1..Len(arr) : i # j => arr[i] # arr[j]

\* gs holds what is left of the shuffle sd after k draws: the first k cards of
\* the shuffle are the cards drawn since it, the last of them is on the table
DrawnFrom(gs, sd, k) ==
    LET full  == ShuffledDeck[sd]
        drawn == {full[i] : i \in 1..k}
    IN  /\ gs.deck = SubSeq(full, k + 1, Len(full))
        /\ gs.currentCard = (IF k = 0 THEN <<>> ELSE full[k])
        /\ drawn \cap Range(gs.deck) = {}
        /\ drawn \cup Range(gs.deck) = CardSet

====
